---- MODULE Spec2Model ----
(***************************************************************************)
(* Verification model of the agent_sre orchestration code.                 *)
(*                                                                         *)
(* Part A  AlertProcessor.process_alert and the LangGraph workflow it      *)
(*         drives (sre-agent): create_plan, determine_next_task,           *)
(*         rag_lookup, execute_task, reflect, generate_recommendation,     *)
(*         and the three degradation tiers around them.                    *)
(* Part B  ExecutionOrchestrator.run and SimplePlanningAgent.execute_plan  *)
(*         (the step loops of the planning controllers).                   *)
(* Part C  two runs of the workflow on the same inputs, for the            *)
(*         independence of routing from reflection texts.                  *)
(* Part D  two concurrent calls of SimplePlanningAgent.execute_plan.       *)
(* Part E  code-rag: EmbeddingGenerator._get_embedding and                 *)
(*         LLMIntegration.generate_response under their retry decorator.   *)
(* Part F  generate_final_answer and the agent's output_schema.            *)
(*                                                                         *)
(* Conventions.  Python None-or-list values are sequences, None being the  *)
(* empty sequence (the code only tests them for truthiness).  An Optional  *)
(* record is a sequence of length 0 or 1.  A text that the code strips or  *)
(* compares is a sequence of tokens, " " being a whitespace token.  The    *)
(* conditional edges of create_agent_graph are read as the mapping from    *)
(* target node to predicate that the source writes down.                   *)
(***************************************************************************)
EXTENDS Integers, Sequences, FiniteSets, TLC

VARIABLES
    alert,      \* the alert dict given to process_alert
    pc,         \* position inside process_alert
    node,       \* next node of the compiled workflow graph
    st,         \* the AgentState threaded through the workflow nodes
    fb,         \* the state of the direct-call fallback (rag_result / rec_state)
    result,     \* value returned by process_alert (Optional)
    tiers,      \* history: degradation tiers started, in order
    trace,      \* history: workflow nodes executed, with the plan index they worked on
    ext,        \* history: counts of external calls and of their failures, and
                \* what create_plan got from its completion call
    failedAt,   \* history: workflow state at the first exception of a step node
    synthIn,    \* history: inputs handed to generate_recommendation
    orch,       \* Part B: state of one plan execution loop
    twin,       \* Part C: two workflow runs that differ in their reflection texts
    runs,       \* Part D: two concurrent calls of SimplePlanningAgent.execute_plan
    codeRag,    \* Part E: the embedding cache and the retried calls of code-rag
    agent       \* Part F: the decision agent used by generate_final_answer

\* the variables of Parts C to F
aux == <<twin, runs, codeRag, agent>>

vars == <<alert, pc, node, st, fb, result, tiers, trace, ext, failedAt, synthIn, orch, aux>>

(***************************************************************************)
(* Bounds                                                                  *)
(***************************************************************************)
MaxPlanLines == 3      \* lines in the completion service's plan response
MaxIncidents == 1      \* incidents the similarity store returns
MaxSteps == 3          \* steps of a plan handed to the execution loops

(***************************************************************************)
(* Texts                                                                   *)
(***************************************************************************)
WS == " "

RECURSIVE LStrip(_)
LStrip(s) == IF s # <<>> /\ Head(s) = WS THEN LStrip(Tail(s)) ELSE s

RECURSIVE RStrip(_)
RStrip(s) == IF s # <<>> /\ s[Len(s)] = WS THEN RStrip(SubSeq(s, 1, Len(s) - 1)) ELSE s

\* str.strip()
Strip(s) == RStrip(LStrip(s))

RetrievalTask == "Check similar past incidents"
NoneTask == "<None>"

Tier3Text ==
    <<"Unable to generate a detailed recommendation", ".", " ",
      "Please check the logs for more information.">>

ErrorText(e) == <<"Error generating recommendation: ", e>>

(***************************************************************************)
(* Alerts                                                                  *)
(***************************************************************************)
AlertKeys == {"id", "type", "summary", "details"}

Alerts ==
    { [id |-> "a1", type |-> "PodCrashLoop", keys |-> AlertKeys],
      [id |-> "a1", type |-> "PodCrashLoop", keys |-> AlertKeys \ {"id"}],
      [id |-> "a1", type |-> "PodCrashLoop", keys |-> AlertKeys \ {"summary"}] }

\* alert.get(k, "unknown")
AlertGet(a, k) == IF k \in a.keys THEN a[k] ELSE "unknown"

\* state["alert"]["type"], ["summary"], ["details"] evaluate without KeyError
PromptKeysPresent(a) == {"type", "summary", "details"} \subseteq a.keys

(***************************************************************************)
(* Workflow state                                                          *)
(***************************************************************************)
initial_state ==
    [ plan |-> <<>>,
      current_task |-> NoneTask,
      completed_tasks |-> <<>>,
      task_results |-> <<>>,
      similar_incidents |-> <<>>,
      reflections |-> <<>>,
      recommendation |-> <<>> ]

\* an entry of task_results: kind "rag" is the formatted lookup summary (count
\* and top incident), "llm" a completion's text, "literal" a constant string
TaskResult(k, n, t) == [kind |-> k, n |-> n, text |-> t]

(***************************************************************************)
(* External collaborators                                                  *)
(***************************************************************************)
NoneDoc == "<None document>"

Incidents ==
    { [error |-> "Auth service pod crashes with OOMKilled", similarity_score |-> 91],
      [error |-> NoneDoc, similarity_score |-> 78] }

RECURSIVE SeqsUpTo(_, _)
SeqsUpTo(S, n) ==
    IF n = 0 THEN {<<>>}
    ELSE LET shorter == SeqsUpTo(S, n - 1)
         IN  shorter \cup {Append(s, x) : s \in shorter, x \in S}

\* what RAGService() followed by find_similar_alerts can do
RagOutcomes ==
    { [kind |-> "init_fail", incidents |-> <<>>],
      [kind |-> "query_fail", incidents |-> <<>>] }
    \cup { [kind |-> "ok", incidents |-> s] : s \in SeqsUpTo(Incidents, MaxIncidents) }

\* a completion call raises, or returns a message whose content is a text, or
\* one whose content is not a string (no .strip(): AttributeError)
LlmRaise == [kind |-> "raise", content |-> <<>>]
LlmNone == [kind |-> "none", content |-> <<>>]
LlmText(c) == [kind |-> "text", content |-> c]

\* lines of a plan response: "N. body", " N. body", "N) body", prose and blank lines
PlanLines ==
    { [indent |-> FALSE, num |-> TRUE, dotsp |-> TRUE, body |-> RetrievalTask],
      [indent |-> FALSE, num |-> TRUE, dotsp |-> TRUE, body |-> "Examine container logs"],
      [indent |-> FALSE, num |-> TRUE, dotsp |-> TRUE, body |-> ""],
      [indent |-> TRUE, num |-> TRUE, dotsp |-> TRUE, body |-> "Examine container logs"],
      [indent |-> FALSE, num |-> FALSE, dotsp |-> FALSE, body |-> "Here is the plan:"],
      [indent |-> FALSE, num |-> FALSE, dotsp |-> FALSE, body |-> ""] }

PlanResponses == SeqsUpTo(PlanLines, MaxPlanLines)

TaskTexts == {<<"Found OutOfMemoryError in container logs", WS>>}
ReflectionTexts == {<<"Looks like a memory limit problem">>}
RecTexts ==
    { <<>>, <<WS>>, <<"Increase the memory limit">>,
      <<WS, "Increase the memory limit", WS>> }

(***************************************************************************)
(* create_plan                                                             *)
(***************************************************************************)
IsBlankLine(l) == ~l.num /\ l.body = ""

RECURSIVE DropLeadingBlank(_)
DropLeadingBlank(ls) ==
    IF ls # <<>> /\ IsBlankLine(Head(ls)) THEN DropLeadingBlank(Tail(ls)) ELSE ls

RECURSIVE DropTrailingBlank(_)
DropTrailingBlank(ls) ==
    IF ls # <<>> /\ IsBlankLine(ls[Len(ls)])
    THEN DropTrailingBlank(SubSeq(ls, 1, Len(ls) - 1))
    ELSE ls

\* result.content.strip() on the whole response: leading and trailing blank
\* lines go, the first line loses its indent, the last line its trailing
\* blank ("N. " becomes "N.", which no longer contains ". ")
StripContent(ls) ==
    LET mid == DropTrailingBlank(DropLeadingBlank(ls))
    IN  [i \in 1..Len(mid) |->
            LET l == mid[i]
                a == IF i = 1 THEN [l EXCEPT !.indent = FALSE] ELSE l
            IN  IF i = Len(mid) /\ a.num /\ a.body = ""
                THEN [a EXCEPT !.dotsp = FALSE]
                ELSE a]

\* line.strip() and line[0].isdigit() and '. ' in line
IsTaskLine(l) == ~IsBlankLine(l) /\ l.num /\ ~l.indent /\ l.dotsp

RECURSIVE ParseTasks(_)
ParseTasks(ls) ==
    IF ls = <<>> THEN <<>>
    ELSE IF IsTaskLine(Head(ls))
         THEN <<Head(ls).body>> \o ParseTasks(Tail(ls))
         ELSE ParseTasks(Tail(ls))

\* the state update of create_plan for a completion result r (kind # "raise")
create_plan(state, r) ==
    IF r.kind = "none"
    THEN [state EXCEPT !.plan = <<RetrievalTask>>, !.current_task = RetrievalTask]
    ELSE LET tasks == ParseTasks(StripContent(r.content))
         IN  [state EXCEPT !.plan = tasks,
                           !.current_task = IF tasks # <<>> THEN RetrievalTask ELSE NoneTask]

(***************************************************************************)
(* determine_next_task                                                     *)
(***************************************************************************)
\* mutant: a reflection saying so ends the investigation
determine_next_taskReadsReflection(state) ==
    IF state.plan = <<>> \/ Len(state.completed_tasks) >= Len(state.plan)
    THEN "generate_recommendation"
    ELSE IF Len(state.completed_tasks) = 0 THEN "rag_lookup"
    ELSE IF state.reflections[Len(state.reflections)] = <<"No further investigation needed">>
    THEN "generate_recommendation"
    ELSE "execute_task"

determine_next_task(state) ==
    IF state.plan = <<>> \/ Len(state.completed_tasks) >= Len(state.plan)
    THEN "generate_recommendation"
    ELSE IF Len(state.completed_tasks) = 0 THEN "rag_lookup" ELSE "execute_task"

\* mutant: the conditional edge for "generate_recommendation" leads to END
RouteAfterDetermineSkipsSynthesis(state) ==
    IF state.current_task = "rag_lookup" \/ state.current_task = RetrievalTask
    THEN "rag_lookup"
    ELSE IF state.current_task = "execute_task" THEN "execute_task"
    ELSE "END"

\* the conditional edges leaving determine_next_task
RouteAfterDetermine(state) ==
    IF state.current_task = "rag_lookup" \/ state.current_task = RetrievalTask
    THEN "rag_lookup"
    ELSE IF state.current_task = "execute_task" THEN "execute_task"
    ELSE IF state.current_task = "generate_recommendation" THEN "generate_recommendation"
    ELSE "END"

\* mutant: the workflow ends after the lookup
GraphEdgeLookupEnds(n) ==
    CASE n = "create_plan" -> "determine_next_task"
      [] n = "rag_lookup" -> "END"
      [] n = "execute_task" -> "reflect"
      [] n = "reflect" -> "determine_next_task"
      [] n = "generate_recommendation" -> "END"

\* the unconditional edges of the graph
GraphEdge(n) ==
    CASE n = "create_plan" -> "determine_next_task"
      [] n = "rag_lookup" -> "reflect"
      [] n = "execute_task" -> "reflect"
      [] n = "reflect" -> "determine_next_task"
      [] n = "generate_recommendation" -> "END"

(***************************************************************************)
(* rag_lookup                                                              *)
(***************************************************************************)
rag_lookup(state, o) ==
    LET similar_incidents == o.incidents
        done == Append(state.completed_tasks, RetrievalTask)
    IN  IF similar_incidents # <<>> /\ similar_incidents[1].error = NoneDoc
        THEN \* formatting the top incident raises: minimal update
             [state EXCEPT !.similar_incidents = similar_incidents,
                           !.completed_tasks = done,
                           !.task_results = Append(@, TaskResult("rag_error", 0, <<"TypeError">>))]
        ELSE [state EXCEPT !.similar_incidents = similar_incidents,
                           !.completed_tasks = done,
                           !.current_task = IF state.plan # <<>> THEN state.plan[1] ELSE NoneTask,
                           !.task_results = Append(@,
                               TaskResult("rag", Len(similar_incidents),
                                   IF similar_incidents # <<>>
                                   THEN <<similar_incidents[1].error>> ELSE <<"None">>))]

(***************************************************************************)
(* execute_task                                                            *)
(***************************************************************************)
\* the (0-based) plan index execute_task works on
current_task_idx(state) == Len(state.completed_tasks)

\* plan[idx] if plan and idx < len(plan) else None; "" is falsy as well
HasCurrentTask(state) ==
    /\ current_task_idx(state) < Len(state.plan)
    /\ state.plan[current_task_idx(state) + 1] # ""

\* the state update of execute_task for a completion result with text content c
execute_task(state, c) ==
    [state EXCEPT !.task_results = Append(@, TaskResult("llm", 0, Strip(c))),
                  !.current_task = state.plan[current_task_idx(state) + 1]]

(***************************************************************************)
(* reflect                                                                 *)
(***************************************************************************)
reflect(state, c) ==
    [state EXCEPT !.reflections = Append(@, Strip(c)),
                  !.completed_tasks = Append(@, state.current_task)]

(***************************************************************************)
(* generate_recommendation                                                 *)
(***************************************************************************)
Recommendation(a, text, inc, tasks) ==
    [ alert_id |-> AlertGet(a, "id"),
      alert_type |-> AlertGet(a, "type"),
      recommendation_text |-> text,
      similar_incidents |-> inc,
      completed_tasks |-> tasks ]

\* the state update of generate_recommendation for a completion result r (kind # "raise")
generate_recommendation(state, a, r) ==
    IF r.kind = "none"
    THEN [state EXCEPT !.recommendation =
              <<Recommendation(a, ErrorText("AttributeError"), <<>>, <<>>)>>]
    ELSE IF "id" \notin a.keys
    THEN [state EXCEPT !.recommendation =
              <<Recommendation(a, ErrorText("KeyError: 'id'"), <<>>, <<>>)>>]
    ELSE [state EXCEPT !.recommendation =
              <<Recommendation(a, Strip(r.content),
                               state.similar_incidents, state.completed_tasks)>>]

(***************************************************************************)
(* process_alert: the three tiers                                          *)
(***************************************************************************)
\* mutant: the workflow's exception is not caught
PropagateTier1 == "raised"

\* where control goes when the workflow raises: "except Exception: pass"
\* falls through to the direct calls
CatchTier1 == "tier2_rag"

\* where control goes when the direct calls raise: falls through to the
\* static recommendation
CatchTier2 == "tier3"

\* mutant: the workflow's recommendation is not returned
AfterTier1NoReturn(state) == "tier2_rag"

\* after the workflow ended: return its recommendation if it is truthy
AfterTier1(state) == IF state.recommendation # <<>> THEN "done" ELSE "tier2_rag"

\* after the direct calls: return their recommendation if it is truthy
AfterTier2(state) == IF state.recommendation # <<>> THEN "done" ELSE "tier3"

\* rec_state: the lookup's state plus the two literal entries
rec_state(rag_result) ==
    [rag_result EXCEPT
        !.completed_tasks = Append(@, "Execute task"),
        !.task_results = Append(@, TaskResult("literal", 0, <<"Task execution result">>))]

\* mutant: the basic recommendation lists the retrieval step as completed
StaticRecommendationWithTask(a) == Recommendation(a, Tier3Text, <<>>, <<RetrievalTask>>)

\* the basic recommendation built when all else fails
StaticRecommendation(a) == Recommendation(a, Tier3Text, <<>>, <<>>)

TierOf(p) == IF p = "tier2_rag" THEN 2 ELSE IF p = "tier3" THEN 3 ELSE 0

\* history: close the running tier with an outcome and open the tier of p, if any
MoveTo(outcome, p) ==
    LET closed == [tiers EXCEPT ![Len(tiers)].outcome = outcome]
    IN  /\ pc' = p
        /\ tiers' = IF TierOf(p) # 0
                    THEN Append(closed, [tier |-> TierOf(p), outcome |-> "running"])
                    ELSE closed

Called(e, llm, llmFail, rag, ragFail) ==
    [e EXCEPT !.llmCalls = @ + llm, !.llmFails = @ + llmFail,
              !.ragCalls = @ + rag, !.ragFails = @ + ragFail]

NoCalls ==
    [llmCalls |-> 0, llmFails |-> 0, ragCalls |-> 0, ragFails |-> 0, planBuilder |-> <<>>]

\* history: the kind of the plan response and the number of tasks parsed from it
BuilderOutcome(r, parsed) ==
    [kind |-> r.kind, parsed |-> IF r.kind = "text" THEN Len(parsed) ELSE 0]

Visit(n, idx) == trace' = Append(trace, [node |-> n, idx |-> idx])

\* history: one call of generate_recommendation, what it was given and how it ended
SynthInput(t, state, outcome) ==
    [ tier |-> t, outcome |-> outcome,
      completed_tasks |-> state.completed_tasks,
      task_results |-> state.task_results,
      similar_incidents |-> state.similar_incidents ]

\* an exception leaves node n of the workflow and unwinds ainvoke
RaiseInWorkflow(n, llm) ==
    /\ MoveTo("raised", CatchTier1)
    /\ Visit(n, -1)
    /\ ext' = Called(ext, llm, llm, 0, 0)
    /\ failedAt' = IF failedAt = <<>> THEN <<[node |-> n, state |-> st]>> ELSE failedAt
    /\ fb' = IF CatchTier1 = "tier2_rag" THEN initial_state ELSE fb
    /\ synthIn' = IF n = "generate_recommendation"
                  THEN Append(synthIn, SynthInput(1, st, "raised")) ELSE synthIn
    /\ UNCHANGED <<alert, node, st, result, orch, aux>>

Start ==
    /\ pc = "idle"
    /\ pc' = "tier1"
    /\ node' = "create_plan"
    /\ st' = initial_state
    /\ tiers' = <<[tier |-> 1, outcome |-> "running"]>>
    /\ UNCHANGED <<alert, fb, result, trace, ext, failedAt, synthIn, orch, aux>>

CreatePlanNode ==
    /\ pc = "tier1" /\ node = "create_plan"
    /\ IF ~PromptKeysPresent(alert)
       THEN RaiseInWorkflow("create_plan", 0)
       ELSE \E r \in {LlmRaise, LlmNone} \cup {LlmText(c) : c \in PlanResponses} :
              IF r.kind = "raise"
              THEN RaiseInWorkflow("create_plan", 1)
              ELSE /\ st' = create_plan(st, r)
                   /\ node' = GraphEdge("create_plan")
                   /\ Visit("create_plan", -1)
                   /\ ext' = [Called(ext, 1, 0, 0, 0) EXCEPT
                                !.planBuilder = <<BuilderOutcome(r,
                                    IF r.kind = "text"
                                    THEN ParseTasks(StripContent(r.content)) ELSE <<>>)>>]
                   /\ UNCHANGED <<alert, pc, fb, result, tiers, failedAt, synthIn, orch, aux>>

DetermineNextTaskNode ==
    /\ pc = "tier1" /\ node = "determine_next_task"
    /\ st' = [st EXCEPT !.current_task = determine_next_task(st)]
    /\ node' = RouteAfterDetermine(st')
    /\ Visit("determine_next_task", -1)
    /\ UNCHANGED <<alert, pc, fb, result, tiers, ext, failedAt, synthIn, orch, aux>>

\* RAGService() or find_similar_alerts may fail; the query needs the alert's keys
RagPossible(a, o) == o.kind = "ok" => PromptKeysPresent(a)

RagLookupNode ==
    /\ pc = "tier1" /\ node = "rag_lookup"
    /\ \E o \in RagOutcomes :
         /\ RagPossible(alert, o)
         /\ st' = rag_lookup(st, o)
         /\ ext' = Called(ext, 0, 0, 1, IF o.kind = "ok" THEN 0 ELSE 1)
    /\ node' = GraphEdge("rag_lookup")
    /\ Visit("rag_lookup", 0)
    /\ UNCHANGED <<alert, pc, fb, result, tiers, failedAt, synthIn, orch, aux>>

ExecuteTaskNode ==
    /\ pc = "tier1" /\ node = "execute_task"
    /\ IF ~HasCurrentTask(st)
       THEN /\ node' = GraphEdge("execute_task")
            /\ Visit("execute_task", current_task_idx(st))
            /\ UNCHANGED <<alert, pc, st, fb, result, tiers, ext, failedAt, synthIn, orch, aux>>
       ELSE \E r \in {LlmRaise, LlmNone} \cup {LlmText(c) : c \in TaskTexts} :
              IF r.kind = "text"
              THEN /\ st' = execute_task(st, r.content)
                   /\ node' = GraphEdge("execute_task")
                   /\ Visit("execute_task", current_task_idx(st))
                   /\ ext' = Called(ext, 1, 0, 0, 0)
                   /\ UNCHANGED <<alert, pc, fb, result, tiers, failedAt, synthIn, orch, aux>>
              ELSE RaiseInWorkflow("execute_task", IF r.kind = "raise" THEN 1 ELSE 0)

ReflectNode ==
    /\ pc = "tier1" /\ node = "reflect"
    /\ \E r \in {LlmRaise, LlmNone} \cup {LlmText(c) : c \in ReflectionTexts} :
         IF r.kind = "text"
         THEN /\ st' = reflect(st, r.content)
              /\ node' = GraphEdge("reflect")
              /\ Visit("reflect", -1)
              /\ ext' = Called(ext, 1, 0, 0, 0)
              /\ UNCHANGED <<alert, pc, fb, result, tiers, failedAt, synthIn, orch, aux>>
         ELSE RaiseInWorkflow("reflect", IF r.kind = "raise" THEN 1 ELSE 0)

GenerateRecommendationNode ==
    /\ pc = "tier1" /\ node = "generate_recommendation"
    /\ IF ~PromptKeysPresent(alert)
       THEN RaiseInWorkflow("generate_recommendation", 0)
       ELSE \E r \in {LlmRaise, LlmNone} \cup {LlmText(c) : c \in RecTexts} :
              IF r.kind = "raise"
              THEN RaiseInWorkflow("generate_recommendation", 1)
              ELSE /\ st' = generate_recommendation(st, alert, r)
                   /\ node' = GraphEdge("generate_recommendation")
                   /\ Visit("generate_recommendation", -1)
                   /\ ext' = Called(ext, 1, 0, 0, 0)
                   /\ synthIn' = Append(synthIn, SynthInput(1, st, "returned"))
                   /\ UNCHANGED <<alert, pc, fb, result, tiers, failedAt, orch, aux>>

\* ainvoke returned final_state
WorkflowEnd ==
    /\ pc = "tier1" /\ node = "END"
    /\ MoveTo(IF st.recommendation # <<>> THEN "returned" ELSE "no_rec", AfterTier1(st))
    /\ result' = IF AfterTier1(st) = "done" THEN st.recommendation ELSE result
    /\ fb' = IF AfterTier1(st) = "tier2_rag" THEN initial_state ELSE fb
    /\ UNCHANGED <<alert, node, st, trace, ext, failedAt, synthIn, orch, aux>>

\* rag_result = rag_lookup(initial_state); rec_state = {...}
Tier2Rag ==
    /\ pc = "tier2_rag"
    /\ \E o \in RagOutcomes :
         /\ RagPossible(alert, o)
         /\ fb' = rec_state(rag_lookup(initial_state, o))
         /\ ext' = Called(ext, 0, 0, 1, IF o.kind = "ok" THEN 0 ELSE 1)
    /\ pc' = "tier2_rec"
    /\ UNCHANGED <<alert, node, st, result, tiers, trace, failedAt, synthIn, orch, aux>>

\* rec_result = generate_recommendation(rec_state)
Tier2Rec ==
    /\ pc = "tier2_rec"
    /\ IF ~PromptKeysPresent(alert)
       THEN /\ MoveTo("raised", CatchTier2)
            /\ synthIn' = Append(synthIn, SynthInput(2, fb, "raised"))
            /\ UNCHANGED <<alert, node, st, fb, result, trace, ext, failedAt, orch, aux>>
       ELSE \E r \in {LlmRaise, LlmNone} \cup {LlmText(c) : c \in RecTexts} :
              IF r.kind = "raise"
              THEN /\ MoveTo("raised", CatchTier2)
                   /\ ext' = Called(ext, 1, 1, 0, 0)
                   /\ synthIn' = Append(synthIn, SynthInput(2, fb, "raised"))
                   /\ UNCHANGED <<alert, node, st, fb, result, trace, failedAt, orch, aux>>
              ELSE LET rec_result == generate_recommendation(fb, alert, r)
                   IN  /\ fb' = rec_result
                       /\ MoveTo(IF rec_result.recommendation # <<>> THEN "returned" ELSE "no_rec",
                                 AfterTier2(rec_result))
                       /\ result' = IF AfterTier2(rec_result) = "done"
                                    THEN rec_result.recommendation ELSE result
                       /\ ext' = Called(ext, 1, 0, 0, 0)
                       /\ synthIn' = Append(synthIn, SynthInput(2, fb, "returned"))
                       /\ UNCHANGED <<alert, node, st, trace, failedAt, orch, aux>>

\* the basic recommendation
Tier3 ==
    /\ pc = "tier3"
    /\ result' = <<StaticRecommendation(alert)>>
    /\ MoveTo("returned", "done")
    /\ UNCHANGED <<alert, node, st, fb, trace, ext, failedAt, synthIn, orch, aux>>

\* Part B is not running
OrchIdle ==
    [ phase |-> "idle", engine |-> "none", steps |-> <<>>, step_index |-> 0,
      plan_knowledge |-> <<>>, accumulated_knowledge |-> <<>>,
      executed_steps |-> <<>>, success |-> TRUE,
      attempted |-> <<>>, failure |-> <<>>, output |-> <<>>,
      builder |-> <<>>, calls |-> <<>> ]

\* Parts C to F are not running
TwinIdle == [phase |-> "idle", node |-> <<"none", "none">>,
             st |-> <<initial_state, initial_state>>, trace |-> <<<<>>, <<>>>>]

RunsIdle == [phase |-> "idle"]

CodeRagIdle == [phase |-> "idle"]

AgentIdle == [phase |-> "idle"]

AuxIdle ==
    /\ twin = TwinIdle
    /\ runs = RunsIdle
    /\ codeRag = CodeRagIdle
    /\ agent = AgentIdle

InitAlert ==
    /\ AuxIdle
    /\ alert \in Alerts
    /\ pc = "idle"
    /\ node = "none"
    /\ st = initial_state
    /\ fb = initial_state
    /\ result = <<>>
    /\ tiers = <<>>
    /\ trace = <<>>
    /\ ext = NoCalls
    /\ failedAt = <<>>
    /\ synthIn = <<>>
    /\ orch = OrchIdle

NextAlert ==
    \/ Start
    \/ CreatePlanNode
    \/ DetermineNextTaskNode
    \/ RagLookupNode
    \/ ExecuteTaskNode
    \/ ReflectNode
    \/ GenerateRecommendationNode
    \/ WorkflowEnd
    \/ Tier2Rag
    \/ Tier2Rec
    \/ Tier3

SpecAlert == InitAlert /\ [][NextAlert]_vars

FairSpecAlert == SpecAlert /\ WF_vars(NextAlert)

(***************************************************************************)
(* Properties of process_alert and the workflow                            *)
(***************************************************************************)
Returned == pc = "done"

StepNodes == {"rag_lookup", "execute_task"}

\* the plan indices the step nodes worked on, in order
RECURSIVE ProcessedIdx(_)
ProcessedIdx(t) ==
    IF t = <<>> THEN <<>>
    ELSE IF Head(t).node \in StepNodes /\ Head(t).idx >= 0
         THEN <<Head(t).idx>> \o ProcessedIdx(Tail(t))
         ELSE ProcessedIdx(Tail(t))

RECURSIVE CountNode(_, _)
CountNode(t, n) ==
    IF t = <<>> THEN 0
    ELSE (IF Head(t).node = n THEN 1 ELSE 0) + CountNode(Tail(t), n)

\* C1: process_alert never raises to its caller and returns a Recommendation
\* whose recommendation_text is non-empty, whatever the collaborators do
\* (success, failure, empty output).
C1_NonEmptyRecommendation ==
    /\ pc # "raised"
    /\ Returned => Len(result) = 1 /\ result[1].recommendation_text # <<>>

C3_TiersTopDown ==
    /\ \A i \in 1..Len(tiers) : tiers[i].tier = i
    /\ \A i \in 1..(Len(tiers) - 1) : tiers[i].outcome \in {"raised", "no_rec"}
    /\ \A i \in 1..Len(tiers) :
          tiers[i].outcome = "returned" =>
             /\ i = Len(tiers)
             /\ Returned
             /\ Len(result) = 1
             /\ (i = 1 => result = st.recommendation)
             /\ (i = 2 => result = fb.recommendation)
             /\ (i = 3 => result = <<StaticRecommendation(alert)>>)

C3_Witness ==
    /\ Returned
    /\ Len(tiers) = 2
    /\ tiers[1].outcome = "raised"
    /\ tiers[2].outcome = "returned"
    /\ CountNode(trace, "reflect") >= 1

AllCompletionCallsFailed == ext.llmCalls = ext.llmFails

\* C4 (as stated): when every completion call fails, the returned text is
\* exactly "Unable to generate a detailed recommendation" and both lists are
\* empty.
C4_Original ==
    (Returned /\ AllCompletionCallsFailed) =>
        /\ Len(result) = 1
        /\ result[1].recommendation_text = <<"Unable to generate a detailed recommendation">>
        /\ result[1].similar_incidents = <<>>
        /\ result[1].completed_tasks = <<>>

\* C4 (amended): when every completion call fails, process_alert returns the
\* tier-3 static fallback, whose text is "Unable to generate a detailed
\* recommendation. Please check the logs for more information." and whose
\* similar_incidents and completed_tasks are empty.
C4_StaticFallback ==
    (Returned /\ AllCompletionCallsFailed) =>
        /\ Len(result) = 1
        /\ result[1].recommendation_text = Tier3Text
        /\ SubSeq(result[1].recommendation_text, 1, 1) =
              <<"Unable to generate a detailed recommendation">>
        /\ result[1].similar_incidents = <<>>
        /\ result[1].completed_tasks = <<>>
        /\ tiers[Len(tiers)].tier = 3

C4_Witness ==
    /\ Returned
    /\ ext.llmCalls = 2
    /\ ext.llmFails = 2
    /\ ext.ragCalls = 1 /\ ext.ragFails = 0
    /\ fb.similar_incidents # <<>>

\* C5: generate_recommendation never raises: every call of it, also one whose
\* completion call fails, returns a Recommendation.
C5_SynthesizerNeverRaises ==
    \A i \in 1..Len(synthIn) : synthIn[i].outcome = "returned"

\* the routing the transition rule prescribes after n processed steps
PrescribedRoute(n, planLen) ==
    IF n = planLen THEN "generate_recommendation"
    ELSE IF n = 0 THEN "rag_lookup"
    ELSE "execute_task"

\* C6: after plan creation and after every Reflect the router goes to
\* Synthesize when the number of processed steps equals the plan length, to
\* RetrieveIncidents when the next unprocessed step is step 0, and to
\* ExecuteStep otherwise.
C6_RoutingRule ==
    (pc = "tier1" /\ trace # <<>> /\ trace[Len(trace)].node = "determine_next_task") =>
        node = PrescribedRoute(Len(ProcessedIdx(trace)), Len(st.plan))

NoFailure == ext.llmFails = 0 /\ ext.ragFails = 0 /\ failedAt = <<>>

\* C7: in a run without failures the plan's steps are processed in plan
\* order, each exactly once (step 0 by rag_lookup, the others by
\* execute_task), none skipped or repeated before Synthesize.
C7_StepsInOrderOnce ==
    (pc = "tier1" /\ node = "END" /\ NoFailure) =>
        ProcessedIdx(trace) = [i \in 1..Len(st.plan) |-> i - 1]

WorkflowDone == node = "END"

RegisteredTools == {"rag", "search", "final_answer"}

\* what the decision agent can answer: it fails, or it names a tool
Decisions == {"<fail>", "bogus-tool"} \cup RegisteredTools

\* ToolManager.execute_tool: UnknownCapability for an unregistered name,
\* CapabilityExecutionError when the capability fails
execute_tool(tool, toolOk) ==
    IF tool \notin RegisteredTools
    THEN [raised |-> TRUE, error |-> "UnknownCapability", tool |-> tool]
    ELSE IF ~toolOk
    THEN [raised |-> TRUE, error |-> "CapabilityExecutionError", tool |-> tool]
    ELSE [raised |-> FALSE, error |-> "", tool |-> tool]

\* OrchestratorCore.execute_orchestration_step via execute_with_context:
\* agent.run (the decision), then the selected tool
execute_with_context(decision, toolOk) ==
    IF decision = "<fail>"
    THEN [raised |-> TRUE, error |-> "DecisionFailure", tool |-> "none"]
    ELSE execute_tool(decision, toolOk)

\* ContextAccumulator.summarize_step_result
summarize_step_result(description, tool_name) ==
    [step |-> description, tool |-> tool_name]

\* ContextAccumulator.merge_contexts: concatenation
merge_contexts(existing, step_summary) == Append(existing, step_summary)

\* mutant: the loop does not break after a failed step
ContinueAfterFailedStep(i, n) == i + 1

\* the index the loop goes on with after a failed step: break
AfterFailedStep(i, n) == n

\* mutant: the loop goes on after a final answer
ContinueAfterFinalAnswer(i, n, tool_name) == i + 1

\* the index the loop goes on with after a completed step
AfterCompletedStep(i, n, tool_name) == IF tool_name = "final_answer" THEN n ELSE i + 1

PlanSteps(n) == [i \in 1..n |-> [description |-> i, status |-> "pending", error |-> ""]]

\* PlanStepSchema(description=desc): a step is created pending
PlanStepSchema(desc) == [description |-> desc, status |-> "pending", error |-> ""]

DefaultSteps ==
    << "Investigate the alert and gather system information",
       "Analyze findings to identify potential root causes",
       "Implement appropriate resolution or escalation" >>

\* SimplePlanningAgent.create_plan, the parse: every line is stripped; a line
\* that starts with a digit gives the text after its first '.', stripped, and
\* an empty text is dropped
RECURSIVE step_descriptions(_)
step_descriptions(ls) ==
    IF ls = <<>> THEN <<>>
    ELSE IF Head(ls).num /\ Head(ls).body # ""
         THEN <<Head(ls).body>> \o step_descriptions(Tail(ls))
         ELSE step_descriptions(Tail(ls))

\* SimplePlanningAgent.create_plan for a completion result r: a failed call
\* and a content without .strip() both end in the except branch
SimplePlanningAgent_create_plan(r) ==
    IF r.kind # "text" THEN DefaultSteps
    ELSE IF step_descriptions(r.content) = <<>> THEN DefaultSteps
    ELSE step_descriptions(r.content)

\* plan.alert and plan.context
PlanAlert == "pod X crashlooping"
PlanContext == "production cluster"

\* ExecutionContext(alert, context, accumulated_knowledge, step_id, step_description)
ExecutionContext(knowledge, i, description) ==
    [ alert |-> PlanAlert, context |-> PlanContext,
      accumulated_knowledge |-> knowledge,
      step_id |-> i + 1, step_description |-> description ]

\* the input schema execute_with_context builds for agent.run
OrchestratorInputSchema(execution_context) ==
    [ system_alert |-> execution_context.alert,
      system_context |-> execution_context.context ]

\* mutant: the step's summary replaces what was known
ReplaceKnowledge(existing, step_summary) == <<step_summary>>

\* accumulated_knowledge = ContextAccumulator.merge_contexts(accumulated_knowledge, step_summary)
UpdateKnowledge(existing, step_summary) == merge_contexts(existing, step_summary)

PriorKnowledge == {<<>>, <<[step |-> 0, tool |-> "earlier run"]>>}

StepExecutionResult(i, description, status, tool, summary) ==
    [ step_index |-> i, step_description |-> description, status |-> status,
      tool_used |-> tool, result_summary |-> summary ]

\* history of one call of execute_with_context: the context it was given, the
\* input it handed to the decision call and the tool that was selected
Attempt(o, i, r, ctx) ==
    [o EXCEPT !.attempted = Append(@, i),
              !.calls = Append(@, [ index |-> i, context |-> ctx,
                                    decision_input |-> OrchestratorInputSchema(ctx),
                                    tool |-> r.tool, raised |-> r.raised ]),
              !.failure = IF r.raised /\ @ = <<>>
                          THEN <<[index |-> i, error |-> r.error]>> ELSE @]

PhaseAt(i, n) == IF i < n THEN "loop" ELSE "summary"

\* ExecutionOrchestrator.run is called with a plan
RunStart ==
    /\ orch.phase = "idle"
    /\ \E n \in 0..MaxSteps, k \in PriorKnowledge :
         orch' = [OrchIdle EXCEPT !.phase = PhaseAt(0, n), !.engine = "run",
                                  !.steps = PlanSteps(n), !.plan_knowledge = k,
                                  !.accumulated_knowledge = k]
    /\ UNCHANGED <<alert, pc, node, st, fb, result, tiers, trace, ext, failedAt, synthIn, aux>>

\* one iteration of the loop of ExecutionOrchestrator.run
RunStep ==
    /\ orch.phase = "loop" /\ orch.engine = "run"
    /\ \E d \in Decisions, toolOk \in BOOLEAN :
         LET i == orch.step_index
             n == Len(orch.steps)
             step == orch.steps[i + 1]
             r == execute_with_context(d, toolOk)
             ctx == ExecutionContext(orch.accumulated_knowledge, i, step.description)
             o == Attempt(orch, i, r, ctx)
         IN  IF r.raised
             THEN orch' = [o EXCEPT
                     !.executed_steps = Append(@,
                         StepExecutionResult(i, step.description, "failed", "none",
                                             <<"Step failed with error: ", r.error>>)),
                     !.success = FALSE,
                     !.step_index = AfterFailedStep(i, n),
                     !.phase = PhaseAt(AfterFailedStep(i, n), n)]
             ELSE LET step_summary == summarize_step_result(step.description, r.tool)
                  IN  orch' = [o EXCEPT
                          !.accumulated_knowledge = UpdateKnowledge(@, step_summary),
                          !.executed_steps = Append(@,
                              StepExecutionResult(i, step.description, "completed", r.tool,
                                                  <<step_summary>>)),
                          !.step_index = AfterCompletedStep(i, n, r.tool),
                          !.phase = PhaseAt(AfterCompletedStep(i, n, r.tool), n)]
    /\ UNCHANGED <<alert, pc, node, st, fb, result, tiers, trace, ext, failedAt, synthIn, aux>>

Completed(rs) == SelectSeq(rs, LAMBDA x : x.status = "completed")
Failed(rs) == SelectSeq(rs, LAMBDA x : x.status = "failed")

\* ExecutionOrchestrator._generate_execution_summary
generate_execution_summary(plan_steps, plan_knowledge, executed_steps, success) ==
    [ status |-> IF success THEN "Success" ELSE "Failed",
      steps_completed |-> Len(Completed(executed_steps)),
      steps_total |-> Len(plan_steps),
      steps_failed |-> Len(Failed(executed_steps)),
      step_details |-> executed_steps,
      key_findings |-> plan_knowledge ]

\* the summary and the output of ExecutionOrchestrator.run
RunFinish ==
    /\ orch.phase = "summary" /\ orch.engine = "run"
    /\ orch' = [orch EXCEPT
          !.phase = "done",
          !.output = <<[ executed_steps |-> orch.executed_steps,
                         final_summary |-> generate_execution_summary(
                             orch.steps, orch.plan_knowledge,
                             orch.executed_steps, orch.success),
                         success |-> orch.success,
                         accumulated_knowledge |-> orch.accumulated_knowledge ]>>]
    /\ UNCHANGED <<alert, pc, node, st, fb, result, tiers, trace, ext, failedAt, synthIn, aux>>

\* SimplePlanningAgent.execute_plan creates its plan
ExecutePlanStart ==
    /\ orch.phase = "idle"
    /\ \E r \in {LlmRaise, LlmNone} \cup {LlmText(c) : c \in PlanResponses} :
         LET descs == SimplePlanningAgent_create_plan(r)
         IN  orch' = [OrchIdle EXCEPT
                 !.phase = PhaseAt(0, Len(descs)), !.engine = "execute_plan",
                 !.steps = [i \in 1..Len(descs) |-> PlanStepSchema(descs[i])],
                 !.builder = <<BuilderOutcome(r,
                                 IF r.kind = "text"
                                 THEN step_descriptions(r.content) ELSE <<>>)>>]
    /\ UNCHANGED <<alert, pc, node, st, fb, result, tiers, trace, ext, failedAt, synthIn, aux>>

\* step.status = "completed"
StatusAfterSuccess == "completed"

\* mutant: the except branch leaves the step's status alone
StatusAfterExceptionUnset == "pending"

\* step.status = "failed"
StatusAfterException == "failed"

\* one iteration of the loop of SimplePlanningAgent.execute_plan
ExecutePlanStep ==
    /\ orch.phase = "loop" /\ orch.engine = "execute_plan"
    /\ \E d \in Decisions, toolOk \in BOOLEAN :
         LET i == orch.step_index
             n == Len(orch.steps)
             step == orch.steps[i + 1]
             r == execute_with_context(d, toolOk)
             ctx == ExecutionContext(orch.plan_knowledge, i, step.description)
             o == Attempt(orch, i, r, ctx)
         IN  IF r.raised
             THEN orch' = [o EXCEPT
                     !.steps[i + 1].status = StatusAfterException,
                     !.steps[i + 1].error = r.error,
                     !.success = FALSE,
                     !.step_index = AfterFailedStep(i, n),
                     !.phase = PhaseAt(AfterFailedStep(i, n), n)]
             ELSE orch' = [o EXCEPT
                     !.steps[i + 1].status = StatusAfterSuccess,
                     !.plan_knowledge = UpdateKnowledge(@,
                         summarize_step_result(step.description, r.tool)),
                     !.step_index = AfterCompletedStep(i, n, r.tool),
                     !.phase = PhaseAt(AfterCompletedStep(i, n, r.tool), n)]
    /\ UNCHANGED <<alert, pc, node, st, fb, result, tiers, trace, ext, failedAt, synthIn, aux>>

\* SimplePlanningAgent.generate_summary
generate_summary(plan_steps, plan_knowledge) ==
    [ steps |-> plan_steps,
      completed |-> Len(Completed(plan_steps)),
      total |-> Len(plan_steps),
      failed |-> Len(Failed(plan_steps)),
      key_findings |-> plan_knowledge ]

\* the summary and the output of execute_plan
ExecutePlanFinish ==
    /\ orch.phase = "summary" /\ orch.engine = "execute_plan"
    /\ orch' = [orch EXCEPT
          !.phase = "done",
          !.output = <<[ plan |-> orch.steps,
                         summary |-> generate_summary(orch.steps, orch.plan_knowledge),
                         success |-> orch.success ]>>]
    /\ UNCHANGED <<alert, pc, node, st, fb, result, tiers, trace, ext, failedAt, synthIn, aux>>

\* Parts A and B are not running
PartsABIdle ==
    /\ alert = [id |-> "a1", type |-> "PodCrashLoop", keys |-> AlertKeys]
    /\ pc = "idle"
    /\ node = "none"
    /\ st = initial_state
    /\ fb = initial_state
    /\ result = <<>>
    /\ tiers = <<>>
    /\ trace = <<>>
    /\ ext = NoCalls
    /\ failedAt = <<>>
    /\ synthIn = <<>>
    /\ orch = OrchIdle

partsAB == <<alert, pc, node, st, fb, result, tiers, trace, ext, failedAt, synthIn, orch>>

InitOrch ==
    /\ AuxIdle
    /\ alert = [id |-> "a1", type |-> "PodCrashLoop", keys |-> AlertKeys]
    /\ pc = "idle"
    /\ node = "none"
    /\ st = initial_state
    /\ fb = initial_state
    /\ result = <<>>
    /\ tiers = <<>>
    /\ trace = <<>>
    /\ ext = NoCalls
    /\ failedAt = <<>>
    /\ synthIn = <<>>
    /\ orch = OrchIdle

NextOrch ==
    \/ RunStart
    \/ RunStep
    \/ RunFinish
    \/ ExecutePlanStart
    \/ ExecutePlanStep
    \/ ExecutePlanFinish

SpecOrch == InitOrch /\ [][NextOrch]_vars

(***************************************************************************)
(* Properties of the step loops                                            *)
(***************************************************************************)
OrchDone == orch.phase = "done"

\* the status recorded in o for the step with (0-based) index i
StatusOf(o, i) ==
    IF o.engine = "execute_plan"
    THEN o.steps[i + 1].status
    ELSE IF \E j \in 1..Len(o.executed_steps) : o.executed_steps[j].step_index = i
         THEN LET j == CHOOSE j \in 1..Len(o.executed_steps) :
                          o.executed_steps[j].step_index = i
              IN  o.executed_steps[j].status
         ELSE "pending"

RecordedStatus(i) == StatusOf(orch, i)

\* C9: if the decision or the capability invocation of step k fails, then at
\* the end of the run exactly the steps before k are recorded Completed,
\* step k is recorded Failed, and no step after k was attempted.
C9_FailureStopsPlan ==
    (OrchDone /\ orch.failure # <<>>) =>
        LET k == orch.failure[1].index
        IN  /\ \A i \in 0..(Len(orch.steps) - 1) :
                  RecordedStatus(i) = IF i < k THEN "completed"
                                      ELSE IF i = k THEN "failed" ELSE "pending"
            /\ orch.attempted = [j \in 1..(k + 1) |-> j - 1]
            /\ (orch.engine = "run" => Len(orch.executed_steps) = k + 1)
            /\ ~orch.success

C9_Witness ==
    /\ OrchDone
    /\ orch.engine = "run"
    /\ Len(orch.steps) = 3
    /\ orch.failure # <<>>
    /\ orch.failure[1].index = 1
    /\ orch.failure[1].error = "CapabilityExecutionError"

\* C10: an exception raised while a step executes is recovered as a Failed
\* step and does not leave the step; the run continues to synthesis, whose
\* input holds the results of the steps completed before the failure.
C10_StepFailureRecovered ==
    (Returned /\ failedAt # <<>> /\ failedAt[1].node = "execute_task") =>
        \E i \in 1..Len(synthIn) :
            /\ synthIn[i].tier = 1
            /\ SubSeq(synthIn[i].task_results, 1, Len(failedAt[1].state.task_results))
                  = failedAt[1].state.task_results

StepIndices(o) == 0..(Len(o.steps) - 1)

CountStatus(o, status) == Cardinality({i \in StepIndices(o) : StatusOf(o, i) = status})

\* a status only ever changes from pending, to completed or to failed
StatusChangesOnce ==
    \A i \in StepIndices(orch) \cap StepIndices(orch') :
        StatusOf(orch', i) # StatusOf(orch, i) =>
            /\ StatusOf(orch, i) = "pending"
            /\ StatusOf(orch', i) \in {"completed", "failed"}

\* C12 (as stated): at every point the Completed steps and the Pending steps
\* add up to the plan's steps, and a status changes once only, from Pending
\* to Completed or to Failed.
C12_Original ==
    /\ [](CountStatus(orch, "completed") + CountStatus(orch, "pending") = Len(orch.steps))
    /\ [][StatusChangesOnce]_vars

\* C12 (amended): at every point the Completed, the Failed and the Pending
\* steps add up to the plan's steps, at most one step is Failed, exactly the
\* steps the loop has reached have left Pending, and a status changes once
\* only, from Pending to Completed or to Failed.
C12_StatusTransitions ==
    /\ [](/\ CountStatus(orch, "completed") + CountStatus(orch, "failed")
                 + CountStatus(orch, "pending") = Len(orch.steps)
          /\ CountStatus(orch, "failed") <= 1
          /\ \A i \in StepIndices(orch) :
                StatusOf(orch, i) # "pending" <=>
                    \E a \in 1..Len(orch.attempted) : orch.attempted[a] = i)
    /\ [][StatusChangesOnce]_vars

C12_Witness ==
    /\ OrchDone
    /\ orch.engine = "execute_plan"
    /\ Len(orch.steps) = 3
    /\ orch.steps[1].status = "completed"
    /\ orch.steps[2].status = "failed"
    /\ orch.steps[3].status = "pending"

\* the accumulated knowledge of the running loop: the local variable of
\* run, plan.accumulated_knowledge in execute_plan
Knowledge(o) ==
    IF o.engine = "execute_plan" THEN o.plan_knowledge ELSE o.accumulated_knowledge

IsPrefix(a, b) == Len(a) <= Len(b) /\ SubSeq(b, 1, Len(a)) = a

\* C13: within one run accumulated_knowledge never gets shorter and is never
\* reset: a completed step extends the previous value by its summary, a
\* failed step and the final summary leave it unchanged.
C13_KnowledgeMonotone ==
    [][orch.phase \in {"loop", "summary"} =>
          /\ IsPrefix(Knowledge(orch), Knowledge(orch'))
          /\ Len(orch'.calls) > Len(orch.calls) =>
                IF orch'.calls[Len(orch'.calls)].raised
                THEN Knowledge(orch') = Knowledge(orch)
                ELSE Len(Knowledge(orch')) = Len(Knowledge(orch)) + 1
          /\ orch.phase = "summary" =>
                /\ Knowledge(orch') = Knowledge(orch)
                /\ orch.engine = "run" =>
                      orch'.output[1].accumulated_knowledge = Knowledge(orch)]_vars

C13_Witness ==
    /\ OrchDone
    /\ orch.engine = "run"
    /\ orch.plan_knowledge # <<>>
    /\ Len(orch.calls) = 3
    /\ orch.calls[3].raised
    /\ Len(orch.accumulated_knowledge) = Len(orch.plan_knowledge) + 2

\* the accumulated knowledge an input of the decision call carries
DecisionKnowledge(input) ==
    IF "accumulated_knowledge" \in DOMAIN input THEN input.accumulated_knowledge ELSE <<>>

\* C14: for every step k the ExecutionContext carries the knowledge written
\* by steps 0..k-1, and the decision call of step k receives that knowledge.
C14_DecisionReceivesKnowledge ==
    \A j \in 1..Len(orch.calls) :
        /\ IsPrefix(orch.calls[j].context.accumulated_knowledge, Knowledge(orch))
        /\ Len(orch.calls[j].context.accumulated_knowledge)
              = Len(orch.calls[1].context.accumulated_knowledge) + (j - 1)
        /\ DecisionKnowledge(orch.calls[j].decision_input)
              = orch.calls[j].context.accumulated_knowledge

\* the ExecutionContext half of C14, which the loops satisfy
C14_ContextCarriesSnapshot ==
    \A j \in 1..Len(orch.calls) :
        /\ IsPrefix(orch.calls[j].context.accumulated_knowledge, Knowledge(orch))
        /\ Len(orch.calls[j].context.accumulated_knowledge)
              = Len(orch.calls[1].context.accumulated_knowledge) + (j - 1)

(***************************************************************************)
(* Properties of the plan builders: create_plan of the workflow and        *)
(* SimplePlanningAgent.create_plan                                         *)
(***************************************************************************)
\* the completion call gave nothing to parse, or nothing was parsed from it
FallbackCase(b) == b.kind # "text" \/ b.parsed = 0

\* the workflow's create_plan raised because its completion call failed
PlanBuilderRaised ==
    /\ failedAt # <<>>
    /\ failedAt[1].node = "create_plan"
    /\ ext.llmFails >= 1

Descriptions(steps) == [i \in 1..Len(steps) |-> steps[i].description]

\* C15: when the plan builder's completion call fails, or nothing is parsed
\* from its output, the builder does not raise and the plan it returns is
\* the fixed default 3-step plan, all steps pending.
C15_FallbackIsDefaultPlan ==
    /\ ~PlanBuilderRaised
    /\ \A j \in 1..Len(ext.planBuilder) :
          FallbackCase(ext.planBuilder[j]) => st.plan = DefaultSteps
    /\ \A j \in 1..Len(orch.builder) :
          FallbackCase(orch.builder[j]) =>
              /\ Descriptions(orch.steps) = DefaultSteps
              /\ orch.calls = <<>> => \A i \in 1..Len(orch.steps) :
                                        orch.steps[i].status = "pending"

\* the half of C15 that SimplePlanningAgent.create_plan satisfies
C15_SimpleAgentFallback ==
    \A j \in 1..Len(orch.builder) :
        FallbackCase(orch.builder[j]) =>
            /\ Descriptions(orch.steps) = DefaultSteps
            /\ orch.calls = <<>> => \A i \in 1..Len(orch.steps) :
                                      orch.steps[i].status = "pending"

\* C16: in every plan a plan builder returns the description of step 0 is
\* the default retrieval step, and the plan returned when the completion
\* call fails has exactly 3 steps.
C16_FirstStepIsRetrieval ==
    /\ ~PlanBuilderRaised
    /\ \A j \in 1..Len(ext.planBuilder) :
          /\ st.plan # <<>>
          /\ st.plan[1] = RetrievalTask
          /\ ext.planBuilder[j].kind # "text" => Len(st.plan) = 3
    /\ \A j \in 1..Len(orch.builder) :
          /\ orch.steps # <<>>
          /\ orch.steps[1].description = RetrievalTask
          /\ orch.builder[j].kind # "text" => Len(orch.steps) = 3

\* C17: every plan a plan builder returns has between 3 and 5 steps,
\* whatever the completion service answered.
C17_PlanLengthThreeToFive ==
    /\ \A j \in 1..Len(ext.planBuilder) : Len(st.plan) >= 3 /\ Len(st.plan) <= 5
    /\ \A j \in 1..Len(orch.builder) : Len(orch.steps) >= 3 /\ Len(orch.steps) <= 5

(***************************************************************************)
(* Properties of the lists of the returned Recommendation                  *)
(***************************************************************************)
ErrorTexts == {ErrorText("AttributeError"), ErrorText("KeyError: 'id'")}

\* the workflow returned a Recommendation, the lookup gave incidents that
\* rag_lookup could format, and no completion call failed or answered
\* something that is not a text
ScenarioAllSucceed ==
    /\ Returned
    /\ Len(tiers) = 1
    /\ NoFailure
    /\ Len(ext.planBuilder) = 1 /\ ext.planBuilder[1].kind = "text"
    /\ st.similar_incidents # <<>>
    /\ st.task_results[1].kind = "rag"
    /\ result[1].recommendation_text \notin ErrorTexts

\* C18: when the lookup returns incidents and every completion call
\* succeeds, the returned Recommendation's similar_incidents is the list the
\* lookup returned and its completed_tasks is as long as the plan, for every
\* plan length.
C18_ScenarioLists ==
    ScenarioAllSucceed =>
        /\ result[1].similar_incidents = st.similar_incidents
        /\ Len(result[1].completed_tasks) = Len(st.plan)

\* the similar_incidents half of C18, which the workflow satisfies
C18_SimilarIncidentsKept ==
    ScenarioAllSucceed => result[1].similar_incidents = st.similar_incidents

\* what one lookup started from the pristine state leaves behind
LookupOnly ==
    { rag_lookup(initial_state, o) : o \in RagOutcomes }

\* C19: tier 2 makes one lookup from the pristine initial state and then one
\* synthesizer call whose input holds that lookup's result and nothing else:
\* no other completed task or task result, nothing of tier 1's execution.
C19_Tier2SeededByLookupOnly ==
    /\ Cardinality({i \in 1..Len(synthIn) : synthIn[i].tier = 2}) <= 1
    /\ \A i \in 1..Len(synthIn) :
          synthIn[i].tier = 2 =>
              \E lk \in LookupOnly :
                  /\ synthIn[i].completed_tasks = lk.completed_tasks
                  /\ synthIn[i].task_results = lk.task_results
                  /\ synthIn[i].similar_incidents = lk.similar_incidents

\* the part of C19 that tier 2 satisfies: one synthesizer call, whose input
\* is one pristine lookup plus the two literal entries of rec_state
C19_NothingFromTier1 ==
    /\ Cardinality({i \in 1..Len(synthIn) : synthIn[i].tier = 2}) <= 1
    /\ \A i \in 1..Len(synthIn) :
          synthIn[i].tier = 2 =>
              \E lk \in LookupOnly :
                  /\ synthIn[i].completed_tasks = rec_state(lk).completed_tasks
                  /\ synthIn[i].task_results = rec_state(lk).task_results
                  /\ synthIn[i].similar_incidents = lk.similar_incidents

\* C20: in the workflow every entry of completed_tasks is the description of
\* a plan step finished in the run, one entry per processed step: after each
\* reflect its length is the number of processed steps, it never exceeds the
\* plan length, and the returned Recommendation carries that list.
C20_OneEntryPerStep ==
    /\ Len(st.completed_tasks) <= Len(st.plan)
    /\ (pc = "tier1" /\ node = "determine_next_task") =>
          /\ Len(st.completed_tasks) = Len(ProcessedIdx(trace))
          /\ \A i \in 1..Len(st.completed_tasks) :
                i <= Len(st.plan) /\ st.completed_tasks[i] = st.plan[i]
    /\ (Returned /\ Len(tiers) = 1 /\ result[1].recommendation_text \notin ErrorTexts) =>
          result[1].completed_tasks = st.completed_tasks

(***************************************************************************)
(* Properties of reflection, of the lookup's failures and of task_results  *)
(***************************************************************************)
\* every step node in t is followed by reflect (or reflect is the next node)
ReflectFollows(t, onlyReturned) ==
    \A i \in 1..Len(t) :
        (t[i].node \in StepNodes /\ (onlyReturned => t[i].idx >= 0)) =>
            IF i < Len(t) THEN t[i + 1].node = "reflect"
            ELSE pc = "tier1" /\ node = "reflect"

StepsVisited(t) == CountNode(t, "rag_lookup") + CountNode(t, "execute_task")

\* C23: reflect runs once after every rag_lookup or execute_task, whether
\* the step succeeded or failed, before the next routing decision; at
\* generate_recommendation there are as many reflections as steps processed.
C23_ReflectAfterEveryStep ==
    /\ ReflectFollows(trace, FALSE)
    /\ \A i \in 1..Len(trace) :
          trace[i].node = "reflect" => i > 1 /\ trace[i - 1].node \in StepNodes
    /\ (pc = "tier1" /\ node \in {"generate_recommendation", "END"} /\ failedAt = <<>>) =>
          Len(st.reflections) = StepsVisited(trace)

\* the part of C23 that holds: a step node that returns is followed by
\* reflect, and the counts agree at generate_recommendation
C23_ReflectAfterReturnedStep ==
    /\ ReflectFollows(trace, TRUE)
    /\ \A i \in 1..Len(trace) :
          trace[i].node = "reflect" => i > 1 /\ trace[i - 1].node \in StepNodes
    /\ (pc = "tier1" /\ node \in {"generate_recommendation", "END"} /\ failedAt = <<>>) =>
          Len(st.reflections) = StepsVisited(trace)

\* the lookup of the running workflow failed (service or query)
WorkflowLookupFailed ==
    /\ Len(tiers) = 1
    /\ ext.ragFails >= 1

C26_ResultsAlignedWithPlan ==
    (pc = "tier1" /\ trace # <<>> /\ trace[Len(trace)].node = "determine_next_task") =>
        /\ Len(st.task_results) = Len(ProcessedIdx(trace))
        /\ ProcessedIdx(trace) = [i \in 1..Len(st.task_results) |-> i - 1]

(***************************************************************************)
(* Properties of the output of ExecutionOrchestrator.run                   *)
(***************************************************************************)
RunReturned == OrchDone /\ orch.engine = "run"

\* C27: run returns executed_steps for a contiguous prefix of the plan, in
\* order, with at most one failed result, which is the last, and success is
\* true exactly when no executed step failed.
C27_ExecutedStepsPrefix ==
    RunReturned =>
        LET out == orch.output[1]
            es == out.executed_steps
        IN  /\ Len(es) <= Len(orch.steps)
            /\ \A j \in 1..Len(es) :
                  /\ es[j].step_index = j - 1
                  /\ es[j].step_description = orch.steps[j].description
                  /\ es[j].status \in {"completed", "failed"}
                  /\ es[j].status = "failed" => j = Len(es)
            /\ out.success <=> Failed(es) = <<>>

C27_Witness ==
    /\ RunReturned
    /\ Len(orch.steps) = 3
    /\ Len(orch.output[1].executed_steps) = 2
    /\ orch.output[1].executed_steps[2].status = "failed"
    /\ ~orch.output[1].success

\* C28: the Key Findings of run's final_summary are the accumulated
\* knowledge that run returns in accumulated_knowledge.
C28_KeyFindingsAreOutputKnowledge ==
    RunReturned =>
        orch.output[1].final_summary.key_findings = orch.output[1].accumulated_knowledge


(***************************************************************************)
(* Part C  Two runs of the workflow (workflow.py, the compiled graph run   *)
(* by ainvoke) on the same alert, the same plan response and the same      *)
(* step outcomes; only the texts the reflection completions return differ. *)
(***************************************************************************)
TwinReflectionTexts ==
    { <<"Looks like a memory limit problem">>,
      <<WS, "No further investigation needed">> }

\* the texts a completion called by node n may return to reflect
ReflectionInputs(n) == IF n = "reflect" THEN TwinReflectionTexts ELSE {<<>>}

\* what the collaborator called by node n may answer
NodeInputs(n) ==
    CASE n = "create_plan" -> {LlmRaise, LlmNone} \cup {LlmText(c) : c \in PlanResponses}
      [] n = "rag_lookup" -> RagOutcomes
      [] n = "execute_task" -> {LlmRaise, LlmNone} \cup {LlmText(c) : c \in TaskTexts}
      [] n = "reflect" -> {LlmRaise, LlmNone, LlmText(<<>>)}
      [] n = "generate_recommendation" ->
             {LlmRaise, LlmNone} \cup {LlmText(c) : c \in RecTexts}
      [] OTHER -> {LlmNone}

\* the plan index a visit of node n works on (-1: none)
NodeIdx(state, n) ==
    IF n = "rag_lookup" THEN 0
    ELSE IF n = "execute_task" THEN current_task_idx(state) ELSE -1

\* one node of the graph: the new state and the node the graph moves to;
\* in is the collaborator's answer, c the text of a reflection completion
WorkflowNode(state, n, a, in, c) ==
    LET raised == [st |-> state, node |-> "raised"]
        next(s2) == [st |-> s2, node |-> GraphEdge(n)]
    IN  CASE n = "create_plan" ->
               IF ~PromptKeysPresent(a) \/ in.kind = "raise" THEN raised
               ELSE next(create_plan(state, in))
          [] n = "determine_next_task" ->
               LET s2 == [state EXCEPT !.current_task = determine_next_task(state)]
               IN  [st |-> s2, node |-> RouteAfterDetermine(s2)]
          [] n = "rag_lookup" -> next(rag_lookup(state, in))
          [] n = "execute_task" ->
               IF ~HasCurrentTask(state) THEN next(state)
               ELSE IF in.kind = "text" THEN next(execute_task(state, in.content))
               ELSE raised
          [] n = "reflect" ->
               IF in.kind = "text" THEN next(reflect(state, c)) ELSE raised
          [] n = "generate_recommendation" ->
               IF ~PromptKeysPresent(a) \/ in.kind = "raise" THEN raised
               ELSE next(generate_recommendation(state, a, in))
          [] OTHER -> [st |-> state, node |-> n]

TwinFinished(n) == n \in {"END", "raised"}

TwinStart ==
    /\ twin.phase = "idle"
    /\ \E a \in Alerts :
         twin' = [phase |-> "run", alert |-> a,
                  node |-> <<"create_plan", "create_plan">>,
                  st |-> <<initial_state, initial_state>>,
                  trace |-> <<<<>>, <<>>>>]
    /\ UNCHANGED <<partsAB, runs, codeRag, agent>>

\* both runs take their next node; runs at the same node get the same answer
TwinStep ==
    /\ twin.phase = "run"
    /\ ~(TwinFinished(twin.node[1]) /\ TwinFinished(twin.node[2]))
    /\ \E inA \in NodeInputs(twin.node[1]), inB \in NodeInputs(twin.node[2]) :
       \E cA \in ReflectionInputs(twin.node[1]), cB \in ReflectionInputs(twin.node[2]) :
         /\ twin.node[1] = twin.node[2] => inA = inB
         /\ twin.node[1] = "rag_lookup" => RagPossible(twin.alert, inA)
         /\ twin.node[2] = "rag_lookup" => RagPossible(twin.alert, inB)
         /\ LET rA == WorkflowNode(twin.st[1], twin.node[1], twin.alert, inA, cA)
                rB == WorkflowNode(twin.st[2], twin.node[2], twin.alert, inB, cB)
                visit(t, state, n) ==
                    IF TwinFinished(n) THEN t
                    ELSE Append(t, [node |-> n, idx |-> NodeIdx(state, n)])
            IN  twin' = [twin EXCEPT
                           !.node = <<rA.node, rB.node>>,
                           !.st = <<rA.st, rB.st>>,
                           !.trace = <<visit(twin.trace[1], twin.st[1], twin.node[1]),
                                       visit(twin.trace[2], twin.st[2], twin.node[2])>>]
    /\ UNCHANGED <<partsAB, runs, codeRag, agent>>

InitTwin == PartsABIdle /\ AuxIdle

NextTwin == TwinStart \/ TwinStep

SpecTwin == InitTwin /\ [][NextTwin]_vars

\* C24: two runs with the same plan and the same step outcomes that differ
\* only in their reflection texts are at the same node after every step, have
\* visited the same sequence of nodes on the same plan indices, and hold the
\* same plan, the same completed tasks and the same task results.
C24_RoutingIgnoresReflections ==
    twin.phase = "run" =>
        /\ twin.node[1] = twin.node[2]
        /\ twin.trace[1] = twin.trace[2]
        /\ twin.st[1].plan = twin.st[2].plan
        /\ twin.st[1].current_task = twin.st[2].current_task
        /\ twin.st[1].completed_tasks = twin.st[2].completed_tasks
        /\ twin.st[1].task_results = twin.st[2].task_results
        /\ Len(twin.st[1].reflections) = Len(twin.st[2].reflections)

\* both runs ended after two reflections each, and no reflection of one run
\* has the text of the other's
C24_Witness ==
    /\ twin.phase = "run"
    /\ twin.node = <<"END", "END">>
    /\ Len(twin.st[1].reflections) >= 2
    /\ Len(twin.st[2].reflections) >= 2
    /\ \A i \in 1..2 : twin.st[1].reflections[i] # twin.st[2].reflections[i]
    /\ \E i \in 1..Len(twin.trace[1]) : twin.trace[1][i].node = "execute_task"


(***************************************************************************)
(* Part D  Two concurrent calls of SimplePlanningAgent.execute_plan for    *)
(* different alerts, on one agent instance or on one instance per call.    *)
(* A plan object is named by the call that constructed it; self.current_   *)
(* plan and the local variable plan hold such a name (0: None).            *)
(***************************************************************************)
MaxConcSteps == 2      \* steps of a plan of the concurrent calls

Calls == {1, 2}

ConcAlert(r) == IF r = 1 THEN "pod X crashlooping" ELSE "disk full on node Y"

\* what agent.run may decide for a step of a concurrent call
ConcDecisions == {"<fail>", "rag", "final_answer"}

\* the agent instance call r runs on
Inst(shared, r) == IF shared THEN 1 ELSE r

\* SimplePlanSchema(alert=alert, context=context, steps=steps)
SimplePlanSchema(a, n) ==
    [alert |-> a, context |-> PlanContext, steps |-> PlanSteps(n), accumulated_knowledge |-> <<>>]

\* the two calls are made
ConcStart ==
    /\ runs.phase = "idle"
    /\ \E shared \in BOOLEAN :
         runs' = [ phase |-> "run", shared |-> shared,
                   current_plan |-> [i \in Calls |-> 0],
                   plans |-> [p \in Calls |-> SimplePlanSchema(ConcAlert(p), 0)],
                   pc |-> [r \in Calls |-> "create_plan"],
                   plan |-> [r \in Calls |-> 0],
                   step_index |-> [r \in Calls |-> 0],
                   success |-> [r \in Calls |-> TRUE],
                   output |-> [r \in Calls |-> <<>>],
                   reads |-> {}, writes |-> {} ]
    /\ UNCHANGED <<partsAB, twin, codeRag, agent>>

\* create_plan: self.current_plan = SimplePlanSchema(...)
ConcAssignPlan ==
    /\ runs.phase = "run"
    /\ \E r \in Calls, n \in 1..MaxConcSteps :
         /\ runs.pc[r] = "create_plan"
         /\ runs' = [runs EXCEPT
                !.plans[r] = SimplePlanSchema(ConcAlert(r), n),
                !.current_plan[Inst(runs.shared, r)] = r,
                !.pc[r] = "return_plan"]
    /\ UNCHANGED <<partsAB, twin, codeRag, agent>>

\* create_plan: return self.current_plan; execute_plan: plan = self.create_plan(...)
ConcReturnPlan ==
    /\ runs.phase = "run"
    /\ \E r \in Calls :
         /\ runs.pc[r] = "return_plan"
         /\ LET p == runs.current_plan[Inst(runs.shared, r)]
            IN  runs' = [runs EXCEPT
                   !.plan[r] = p,
                   !.pc[r] = PhaseAt(0, Len(runs.plans[p].steps)),
                   !.reads = @ \cup {<<r, p>>}]
    /\ UNCHANGED <<partsAB, twin, codeRag, agent>>

\* one iteration of the loop of execute_plan, on the object the local plan names
ConcStep ==
    /\ runs.phase = "run"
    /\ \E r \in Calls, d \in ConcDecisions :
         /\ runs.pc[r] = "loop"
         /\ LET p == runs.plan[r]
                i == runs.step_index[r]
                n == Len(runs.plans[p].steps)
                step == runs.plans[p].steps[i + 1]
                res == execute_with_context(d, TRUE)
                j == IF res.raised THEN AfterFailedStep(i, n)
                     ELSE AfterCompletedStep(i, n, res.tool)
            IN  runs' = [runs EXCEPT
                   !.plans[p].steps[i + 1].status =
                        IF res.raised THEN StatusAfterException ELSE StatusAfterSuccess,
                   !.plans[p].steps[i + 1].error = res.error,
                   !.plans[p].accumulated_knowledge =
                        IF res.raised THEN @
                        ELSE merge_contexts(@, summarize_step_result(step.description, res.tool)),
                   !.success[r] = IF res.raised THEN FALSE ELSE @,
                   !.step_index[r] = j,
                   !.pc[r] = PhaseAt(j, n),
                   !.reads = @ \cup {<<r, p>>},
                   !.writes = @ \cup {<<r, p>>}]
    /\ UNCHANGED <<partsAB, twin, codeRag, agent>>

\* summary = self.generate_summary(), which reads self.current_plan, and the
\* PlanningAgentOutputSchema returned
ConcSummary ==
    /\ runs.phase = "run"
    /\ \E r \in Calls :
         /\ runs.pc[r] = "summary"
         /\ LET p == runs.current_plan[Inst(runs.shared, r)]
            IN  runs' = [runs EXCEPT
                   !.output[r] = <<[ plan |-> runs.plan[r],
                                     summary_alert |-> runs.plans[p].alert,
                                     summary |-> generate_summary(runs.plans[p].steps,
                                                     runs.plans[p].accumulated_knowledge),
                                     success |-> runs.success[r] ]>>,
                   !.pc[r] = "done",
                   !.reads = @ \cup {<<r, p>>}]
    /\ UNCHANGED <<partsAB, twin, codeRag, agent>>

InitConc == PartsABIdle /\ AuxIdle

NextConc == ConcStart \/ ConcAssignPlan \/ ConcReturnPlan \/ ConcStep \/ ConcSummary

SpecConc == InitConc /\ [][NextConc]_vars

\* call r read or wrote only the plan object it constructed, and its output is
\* built from that object
OwnPlanOnly(r) ==
    /\ \A x \in runs.reads \cup runs.writes : x[1] = r => x[2] = r
    /\ runs.output[r] # <<>> =>
          /\ runs.output[r][1].plan = r
          /\ runs.output[r][1].summary_alert = ConcAlert(r)
          /\ runs.output[r][1].summary =
                generate_summary(runs.plans[r].steps, runs.plans[r].accumulated_knowledge)

C21_SeparateInstancesIndependent ==
    (runs.phase = "run" /\ ~runs.shared) => \A r \in Calls : OwnPlanOnly(r)

\* supporting: two calls on separate instances ran interleaved to their outputs
C21_SeparateInstancesWitness ==
    /\ runs.phase = "run" /\ ~runs.shared
    /\ \A r \in Calls : runs.output[r] # <<>> /\ Len(runs.plans[r].accumulated_knowledge) >= 1


(***************************************************************************)
(* Part E  code-rag: EmbeddingGenerator._get_embedding with its cache, and *)
(* LLMIntegration.generate_response, both under tenacity's                 *)
(* @retry(retry_if_exception_type(...), wait_exponential(...),             *)
(*        stop_after_attempt(5)).                                          *)
(***************************************************************************)
MaxRequests == 4       \* calls of _get_embedding on one generator
MaxCacheSize == 2      \* cache_size given to the generator

\* stop=stop_after_attempt(5)
RetryCeiling == 5

EmbeddingTexts == {"a", "b", "c"}

\* the exception types each decorator retries on
EmbeddingRetryable == {"RateLimitError", "APITimeoutError"}
LlmRetryable == {"Timeout", "ConnectionError"}

\* how the external service answers: the first k requests are rate-limited (or
\* all time out), later ones succeed
TransientSignals == {"rate_limited", "timeout"}

ApiAt(k, sig, n) == IF n <= k THEN sig ELSE "ok"

\* the body of _get_embedding for a text that is not cached, with a valid key:
\* any exception of embeddings.create is caught and a random vector is used
embedding_body(api) ==
    [raised |-> FALSE, exc |-> "", value |-> IF api = "ok" THEN "api" ELSE "random_fallback"]

\* the body of generate_response: a status other than 200 gives an error
\* dict, and so does any exception of requests.post
generate_response_body(api) ==
    [raised |-> FALSE, exc |-> "", value |-> IF api = "ok" THEN "solution" ELSE "error"]

\* tenacity: call the body again while it raises a retryable exception and
\* fewer than RetryCeiling attempts were made; outs[n] is what attempt n does
RECURSIVE Retrying(_, _, _)
Retrying(outs, retryable, n) ==
    IF outs[n].raised /\ outs[n].exc \in retryable
    THEN IF n >= RetryCeiling
         THEN [attempts |-> n, raised |-> TRUE, value |-> "RetryError"]
         ELSE Retrying(outs, retryable, n + 1)
    ELSE [attempts |-> n, raised |-> outs[n].raised, value |-> outs[n].value]

\* the insertion into self._cache, a dict in insertion order: a full cache
\* first loses next(iter(self._cache))
cache_insert(cache, cache_size, text) ==
    Append(IF Len(cache) >= cache_size /\ cache # <<>> THEN Tail(cache) ELSE cache, text)

InCache(cache, text) == \E i \in 1..Len(cache) : cache[i] = text

\* history: one decorated call
CallRecord(site, cached, k, sig, r) ==
    [ site |-> site, cached |-> cached, failures |-> k, signal |-> sig,
      attempts |-> r.attempts, raised |-> r.raised, value |-> r.value ]

\* EmbeddingGenerator(cache_size=...)
CodeRagStart ==
    /\ codeRag.phase = "idle"
    /\ \E n \in 1..MaxCacheSize :
         codeRag' = [ phase |-> "run", cache_size |-> n, cache |-> <<>>,
                      requests |-> <<>>, last |-> <<>> ]
    /\ UNCHANGED <<partsAB, twin, runs, agent>>

\* one call of _get_embedding(text)
GetEmbedding ==
    /\ codeRag.phase = "run"
    /\ Len(codeRag.requests) < MaxRequests
    /\ \E text \in EmbeddingTexts, k \in 0..RetryCeiling, sig \in TransientSignals :
         IF InCache(codeRag.cache, text)
         THEN /\ k = 0 /\ sig = "timeout"
              /\ codeRag' = [codeRag EXCEPT
                     !.requests = Append(@, text),
                     !.last = <<CallRecord("embedding", TRUE, 0, sig,
                                   [attempts |-> 1, raised |-> FALSE, value |-> "cached"])>>]
         ELSE LET outs == [n \in 1..RetryCeiling |-> embedding_body(ApiAt(k, sig, n))]
                  r == Retrying(outs, EmbeddingRetryable, 1)
              IN  codeRag' = [codeRag EXCEPT
                     !.requests = Append(@, text),
                     !.cache = IF r.raised THEN @
                               ELSE cache_insert(@, codeRag.cache_size, text),
                     !.last = <<CallRecord("embedding", FALSE, k, sig, r)>>]
    /\ UNCHANGED <<partsAB, twin, runs, agent>>

\* one call of generate_response
GenerateResponse ==
    /\ codeRag.phase = "run"
    /\ \E k \in 0..RetryCeiling, sig \in TransientSignals :
         LET outs == [n \in 1..RetryCeiling |-> generate_response_body(ApiAt(k, sig, n))]
             r == Retrying(outs, LlmRetryable, 1)
         IN  codeRag' = [codeRag EXCEPT !.last = <<CallRecord("llm", FALSE, k, sig, r)>>]
    /\ UNCHANGED <<partsAB, twin, runs, agent>>

InitCodeRag == PartsABIdle /\ AuxIdle

NextCodeRag == CodeRagStart \/ GetEmbedding \/ GenerateResponse

SpecCodeRag == InitCodeRag /\ [][NextCodeRag]_vars

\* the last decorated call went to the external service
ExternalCall == codeRag.phase = "run" /\ codeRag.last # <<>> /\ ~codeRag.last[1].cached

\* C22: an external call that times out or is rate-limited is retried up to 5
\* attempts in total: when the service fails k < 5 times and then answers, the
\* call made k + 1 attempts and yields the service's answer; it is treated as
\* a failure only when all 5 attempts failed.
C22_RetriedUpToCeiling ==
    ExternalCall =>
        LET c == codeRag.last[1]
        IN  IF c.failures < RetryCeiling
            THEN c.attempts = c.failures + 1 /\ c.value \in {"api", "solution"}
            ELSE c.attempts = RetryCeiling /\ c.value \notin {"api", "solution"}

\* supporting: every decorated call makes one attempt, and a service that
\* answers at once gives the call's result
C22_SingleAttempt ==
    ExternalCall =>
        /\ codeRag.last[1].attempts = 1
        /\ ~codeRag.last[1].raised
        /\ codeRag.last[1].failures = 0 => codeRag.last[1].value \in {"api", "solution"}

\* the (at most n) most recently requested distinct texts of reqs
RECURSIVE MostRecent(_, _, _)
MostRecent(reqs, n, acc) ==
    IF reqs = <<>> \/ Cardinality(acc) >= n THEN acc
    ELSE MostRecent(SubSeq(reqs, 1, Len(reqs) - 1), n, acc \cup {reqs[Len(reqs)]})

Cached == {codeRag.cache[i] : i \in 1..Len(codeRag.cache)}

\* C30: the embedding cache is an LRU cache of capacity cache_size: the cached
\* texts are exactly the (at most cache_size) most recently requested distinct
\* texts, a hit counting as a request.
C30_CacheIsLRU ==
    codeRag.phase = "run" => Cached = MostRecent(codeRag.requests, codeRag.cache_size, {})

\* supporting: the cache holds at most cache_size distinct texts, among them
\* the text requested last
C30_CacheBounded ==
    codeRag.phase = "run" =>
        /\ Len(codeRag.cache) <= codeRag.cache_size
        /\ Cardinality(Cached) = Len(codeRag.cache)
        /\ codeRag.requests # <<>> => codeRag.requests[Len(codeRag.requests)] \in Cached


(***************************************************************************)
(* Part F  The decision agent's output_schema across calls of              *)
(* OrchestratorCore.generate_final_answer, of the legacy                   *)
(* orchestrator.generate_final_answer, and of decision steps (agent.run).  *)
(***************************************************************************)
MaxAgentCalls == 3     \* calls made on one agent

OrchestratorOutputSchema == "OrchestratorOutputSchema"
FinalAnswerSchema == "FinalAnswerSchema"

\* how a call of generate_final_answer ends: it returns, or
\* agent.memory.add_message raises, or agent.run raises
FinalAnswerOutcomes == {"returned", "add_message_raised", "run_raised"}

\* OrchestratorCore.generate_final_answer: try ... finally restores the schema
OrchestratorCore_generate_final_answer(a, outcome) ==
    LET original_schema == a.output_schema
    IN  [ output_schema |-> original_schema,
          memory |-> IF outcome = "add_message_raised" THEN a.memory ELSE a.memory + 1,
          run_with |-> IF outcome = "add_message_raised" THEN <<>> ELSE <<FinalAnswerSchema>>,
          raised |-> outcome # "returned" ]

\* orchestrator.generate_final_answer: the schema is restored by the
\* statement after agent.run
generate_final_answer(a, outcome) ==
    LET original_schema == a.output_schema
    IN  [ output_schema |-> IF outcome = "returned" THEN original_schema ELSE FinalAnswerSchema,
          memory |-> IF outcome = "add_message_raised" THEN a.memory ELSE a.memory + 1,
          run_with |-> IF outcome = "add_message_raised" THEN <<>> ELSE <<FinalAnswerSchema>>,
          raised |-> outcome # "returned" ]

\* history: one call on the agent
AgentCall(fn, before, r) ==
    [fn |-> fn, before |-> before, after |-> r.output_schema,
     run_with |-> r.run_with, raised |-> r.raised]

\* create_orchestrator_agent: output_schema=OrchestratorOutputSchema
AgentStart ==
    /\ agent.phase = "idle"
    /\ agent' = [phase |-> "run", output_schema |-> OrchestratorOutputSchema,
                 memory |-> 0, log |-> <<>>]
    /\ UNCHANGED <<partsAB, twin, runs, codeRag>>

\* a decision step: orchestrator_output = self.agent.run(input_schema)
DecisionStep ==
    /\ agent.phase = "run" /\ Len(agent.log) < MaxAgentCalls
    /\ \E ok \in BOOLEAN :
         agent' = [agent EXCEPT
            !.memory = @ + 1,
            !.log = Append(@, AgentCall("decision", agent.output_schema,
                        [output_schema |-> agent.output_schema,
                         run_with |-> <<agent.output_schema>>, raised |-> ~ok]))]
    /\ UNCHANGED <<partsAB, twin, runs, codeRag>>

CoreGenerateFinalAnswer ==
    /\ agent.phase = "run" /\ Len(agent.log) < MaxAgentCalls
    /\ \E outcome \in FinalAnswerOutcomes :
         LET r == OrchestratorCore_generate_final_answer(agent, outcome)
         IN  agent' = [agent EXCEPT
                !.output_schema = r.output_schema,
                !.memory = r.memory,
                !.log = Append(@, AgentCall("OrchestratorCore.generate_final_answer",
                                            agent.output_schema, r))]
    /\ UNCHANGED <<partsAB, twin, runs, codeRag>>

LegacyGenerateFinalAnswer ==
    /\ agent.phase = "run" /\ Len(agent.log) < MaxAgentCalls
    /\ \E outcome \in FinalAnswerOutcomes :
         LET r == generate_final_answer(agent, outcome)
         IN  agent' = [agent EXCEPT
                !.output_schema = r.output_schema,
                !.memory = r.memory,
                !.log = Append(@, AgentCall("orchestrator.generate_final_answer",
                                            agent.output_schema, r))]
    /\ UNCHANGED <<partsAB, twin, runs, codeRag>>

InitAgent == PartsABIdle /\ AuxIdle

NextAgent == AgentStart \/ DecisionStep \/ CoreGenerateFinalAnswer \/ LegacyGenerateFinalAnswer

SpecAgent == InitAgent /\ [][NextAgent]_vars

FinalAnswerCalls ==
    {"OrchestratorCore.generate_final_answer", "orchestrator.generate_final_answer"}

\* C29: generate_final_answer leaves agent.output_schema as it found it,
\* whether it returns or raises, so that no later decision step runs with
\* FinalAnswerSchema installed; for both OrchestratorCore.generate_final_answer
\* and the legacy orchestrator.generate_final_answer.
C29_SchemaRestored ==
    agent.phase = "run" =>
        \A i \in 1..Len(agent.log) :
            /\ agent.log[i].fn \in FinalAnswerCalls => agent.log[i].after = agent.log[i].before
            /\ agent.log[i].fn = "decision" =>
                  agent.log[i].run_with = <<OrchestratorOutputSchema>>

\* supporting: OrchestratorCore.generate_final_answer restores the schema on
\* return and on raise; the legacy function restores it when it returns
C29_RestoredExceptLegacyRaise ==
    agent.phase = "run" =>
        \A i \in 1..Len(agent.log) :
            /\ agent.log[i].fn = "OrchestratorCore.generate_final_answer" =>
                  agent.log[i].after = agent.log[i].before
            /\ (agent.log[i].fn = "orchestrator.generate_final_answer" /\ ~agent.log[i].raised) =>
                  agent.log[i].after = agent.log[i].before

====
